---- MODULE Spec2Model ----
(***************************************************************************)
(* Verification model of the template-python REST API: the User, Hero and  *)
(* File resource handlers, the pagination helper and the password check.    *)
(*                                                                         *)
(* The database is the one the default configuration opens                 *)
(* (src/src/db/config.py:13, sqlite:///./app.db) with the schema that      *)
(* SQLModel.metadata.create_all derives from the table models: a UNIQUE    *)
(* index for every Field(unique=True), NOT NULL for every non-optional     *)
(* field, and an INTEGER PRIMARY KEY id that the engine assigns.           *)
(*                                                                         *)
(* Every handler is a pure operator from the table (or the upload          *)
(* directory) and the request to a result; the action of the handler       *)
(* applies it and records the response in resp.                            *)
(***************************************************************************)
EXTENDS Integers, Sequences, FiniteSets, TLC

VARIABLES
    users,      \* the users table: a sequence of rows, the row's id is its index
    heroes,     \* the heroes table: a function from the ids in use to rows
    files,      \* the upload directory
    resp,       \* the response to the last request that was handled
    reqs,       \* the create_user requests in flight (concurrent specification)
    pg          \* input and result of PaginatedResponse.create (pure-function specification)

vars == <<users, heroes, files, resp, reqs, pg>>

\* An optional value: Python None, SQL NULL or a field that is absent from a
\* request body is the empty tuple, a value that is present is a 1-tuple.
None == <<>>
Some(v) == <<v>>
Unset == None
Optional(S) == {None} \cup {Some(v) : v \in S}

Min2(a, b) == IF a <= b THEN a ELSE b

(***************************************************************************)
(* Bounds of the model.                                                    *)
(***************************************************************************)
MaxUsers == 2
MaxPage == 3
MaxSize == 3
MaxFields == 2
MaxTotal == 7
NumProcs == 2
MaxHeroes == 2
MaxHeroId == 2
MaxHeroFields == 1
MaxFiles == 2
MaxBatch == 11
MaxDirFiles == 10
MaxLogins == 2
MaxPasswordLen == 101

(***************************************************************************)
(* Password strength check (src/src/utils/security.py).                    *)
(***************************************************************************)
Passwords == {"secret1", "hunter22", "Password"}

\* str.lower() on the passwords of the model.
lower(s) ==
    CASE s = "Password" -> "password"
      [] s = "ADMIN" -> "admin"
      [] s = "Admin" -> "admin"
      [] s = "QWERTY" -> "qwerty"
      [] s = "Secret1" -> "secret1"
      [] OTHER -> s

weak_passwords ==
    {"password", "123456", "123456789", "qwerty", "abc123", "password123",
     "admin", "letmein", "welcome", "monkey"}

\* c * n
RECURSIVE repeat(_, _)
repeat(c, n) == IF n = 0 THEN "" ELSE c \o repeat(c, n - 1)

\* The passwords is_password_strong is given: every length from the empty
\* string to MaxPasswordLen, the blacklist and spellings of its words in
\* upper case.
PasswordInputs ==
    {repeat(c, n) : c \in {"a", "1"}, n \in 0..MaxPasswordLen}
        \cup weak_passwords
        \cup {"Password", "ADMIN", "Admin", "QWERTY", "Secret1", "secret1"}

\* A check that stops at the first rule the password violates.
password_issues_first_only(password) ==
    IF Len(password) < 6
    THEN <<"Password must be at least 6 characters long">>
    ELSE IF Len(password) > 100
    THEN <<"Password must be no more than 100 characters long">>
    ELSE IF lower(password) \in weak_passwords
    THEN <<"Password is too common">>
    ELSE <<>>

\* The list of issues, in the order the code appends them.
password_issues(password) ==
    (IF Len(password) < 6
        THEN <<"Password must be at least 6 characters long">> ELSE <<>>)
    \o (IF Len(password) > 100
        THEN <<"Password must be no more than 100 characters long">> ELSE <<>>)
    \o (IF lower(password) \in weak_passwords
        THEN <<"Password is too common">> ELSE <<>>)

is_password_strong(password) ==
    [is_valid |-> Len(password_issues(password)) = 0,
     issues |-> password_issues(password)]

(***************************************************************************)
(* Pagination helper (src/src/utils/pagination.py).                        *)
(***************************************************************************)
\* An offset that takes page for the number of pages to skip.
skip_whole_pages(page, size) == page * size

\* PaginationParams.skip
skip(page, size) == (page - 1) * size

\* A page count that rounds down.
pages_floor(total, size) == IF total > 0 THEN total \div size ELSE 0

pages_of(total, size) == IF total > 0 THEN (total + size - 1) \div size ELSE 0

PaginatedResponse_create(items, total, page, size) ==
    [items |-> items,
     total |-> total,
     page |-> page,
     size |-> size,
     pages |-> pages_of(total, size),
     has_next |-> page < pages_of(total, size),
     has_prev |-> page > 1]

\* query.offset(skip).limit(limit) on the rows the query selects, in order.
offset_limit(rows, off, lim) ==
    SubSeq(rows, off + 1, Min2(Len(rows), off + lim))

paginate_query(rows, page, size) ==
    PaginatedResponse_create(offset_limit(rows, skip(page, size), size),
                             Len(rows), page, size)

(***************************************************************************)
(* Users (src/src/models/user.py, src/src/api/v1/endpoints/users.py).      *)
(***************************************************************************)
Usernames == {"ann", "bob"}
Emails == {"ann@x.io", "bob@x.io"}

\* The bodies FastAPI hands to create_user after validating them as UserCreate.
UserCreateRequests ==
    [username : Usernames, email : Emails, password : Passwords,
     is_active : BOOLEAN]

\* The bodies FastAPI hands to update_user after validating them as UserUpdate.
\* The model sends bodies that carry at most MaxFields fields.
UserUpdateRequests ==
    {upd \in [username : Optional(Usernames), email : Optional(Emails),
              password : Optional(Passwords), is_active : Optional(BOOLEAN)] :
        Cardinality({f \in DOMAIN upd : upd[f] # Unset}) <= MaxFields}

UserIds == 1..(MaxUsers + 1)

\* User(**user.model_dump()): the table model is built without validation,
\* so the values are stored as they were sent.
User(req) ==
    [username |-> req.username, email |-> req.email,
     password |-> req.password, is_active |-> req.is_active,
     last_login |-> None]

\* A response schema that takes every column of the row.
UserResponse_with_password(id, row) ==
    [id |-> id, username |-> row.username, email |-> row.email,
     is_active |-> row.is_active, password |-> row.password]

\* UserResponse.model_validate(user): the row without password and password_hash.
UserResponse(id, row) ==
    [id |-> id, username |-> row.username, email |-> row.email,
     is_active |-> row.is_active]

\* A users table without its UNIQUE indexes.
user_unique_violation_none(rows, self, row) == FALSE

\* The UNIQUE indexes on users.username and users.email: writing row as row
\* number self (0 for an insert) is refused when another row holds the value.
user_unique_violation(rows, self, row) ==
    \E j \in 1..Len(rows) :
        /\ j # self
        /\ \/ rows[j].username = row.username
           \/ rows[j].email = row.email

\* select(User).where(User.username == user.username, User.is_active).first()
existing_user(rows, req) ==
    \E i \in 1..Len(rows) : rows[i].username = req.username /\ rows[i].is_active

existing_email_unchecked(rows, req) == FALSE

\* select(User).where(User.email == user.email, User.is_active).first()
existing_email(rows, req) ==
    \E i \in 1..Len(rows) : rows[i].email = req.email /\ rows[i].is_active

create_user(rows, req) ==
    IF existing_user(rows, req)
    THEN [status |-> 409, rows |-> rows, data |-> None]
    ELSE IF existing_email(rows, req)
    THEN [status |-> 409, rows |-> rows, data |-> None]
    ELSE IF ~is_password_strong(req.password).is_valid
    THEN [status |-> 422, rows |-> rows, data |-> None]
    ELSE IF user_unique_violation(rows, 0, User(req))
    \* db.commit() raises IntegrityError; "except Exception" rolls back and
    \* raises the 500, which handle_db_errors passes through.
    THEN [status |-> 500, rows |-> rows, data |-> None]
    ELSE [status |-> 201, rows |-> Append(rows, User(req)),
          data |-> Some(UserResponse(Len(rows) + 1, User(req)))]

get_user(rows, user_id) ==
    IF user_id \notin 1..Len(rows)
    THEN [status |-> 404, data |-> None]
    ELSE [status |-> 200, data |-> Some(UserResponse(user_id, rows[user_id]))]

\* An update that takes the body for the whole user: is_active falls back to
\* its default when the body does not carry it.
apply_user_update_replacing(row, upd) ==
    [f \in DOMAIN row |->
        IF f \notin DOMAIN upd THEN row[f]
        ELSE IF upd[f] # Unset THEN upd[f][1]
        ELSE IF f = "is_active" THEN TRUE
        ELSE row[f]]

\* setattr(user, field, value) for the fields the body carries.
apply_user_update(row, upd) ==
    [f \in DOMAIN row |->
        IF f \notin DOMAIN upd \/ upd[f] = Unset THEN row[f] ELSE upd[f][1]]

update_user(rows, user_id, upd) ==
    IF user_id \notin 1..Len(rows)
    THEN [status |-> 404, rows |-> rows, data |-> None]
    ELSE IF upd.password # Unset
            /\ ~is_password_strong(upd.password[1]).is_valid
    THEN [status |-> 422, rows |-> rows, data |-> None]
    ELSE IF user_unique_violation(rows, user_id,
                                  apply_user_update(rows[user_id], upd))
    THEN [status |-> 500, rows |-> rows, data |-> None]
    ELSE [status |-> 200,
          rows |-> [rows EXCEPT ![user_id] = apply_user_update(@, upd)],
          data |-> Some(UserResponse(user_id,
                                     apply_user_update(rows[user_id], upd)))]

delete_user_hard(rows, user_id) ==
    IF user_id \notin 1..Len(rows)
    THEN [status |-> 404, rows |-> rows]
    ELSE [status |-> 200,
          rows |-> [i \in 1..(Len(rows) - 1) |->
                        IF i < user_id THEN rows[i] ELSE rows[i + 1]]]

delete_user(rows, user_id) ==
    IF user_id \notin 1..Len(rows)
    THEN [status |-> 404, rows |-> rows]
    ELSE [status |-> 200, rows |-> [rows EXCEPT ![user_id].is_active = FALSE]]

\* The ids select(User).where(User.is_active) yields, in id order.
active_user_ids(rows) ==
    LET F[i \in 0..Len(rows)] ==
            IF i = 0 THEN <<>>
            ELSE IF rows[i].is_active THEN Append(F[i - 1], i) ELSE F[i - 1]
    IN F[Len(rows)]

get_users(rows, page, size) ==
    LET result == paginate_query(active_user_ids(rows), page, size)
    IN [status |-> 200,
        data |-> [result EXCEPT
                    !.items = [k \in 1..Len(result.items) |->
                                   UserResponse(result.items[k],
                                                rows[result.items[k]])]]]

\* The bodies of login_user: UserLogin takes any two strings.
UserLoginRequests ==
    [username : Usernames \cup Emails, password : {"secret1", "hunter22"}]

\* Users whose username may be the email address of another user: neither
\* UserCreate nor the table restricts what a username looks like.
LoginCreateRequests ==
    [username : {"ann", "bob@x.io"}, email : Emails,
     password : {"secret1", "hunter22"}, is_active : BOOLEAN]

\* Updates of the fields login_user reads.
LoginUpdateRequests ==
    {upd \in [username : {Unset}, email : {Unset},
              password : Optional({"secret1", "hunter22"}),
              is_active : Optional(BOOLEAN)] :
        Cardinality({f \in DOMAIN upd : upd[f] # Unset}) = 1}

simple_password_check(plain_password, stored_password) ==
    plain_password = stored_password

\* The rows that select(User).where((User.username == login_data.username)
\* | (User.email == login_data.username)) yields.
login_rows(rows, login_data) ==
    {i \in 1..Len(rows) : \/ rows[i].username = login_data.username
                          \/ rows[i].email = login_data.username}

\* .first() of that query: the statement has no ORDER BY, so it is any of
\* the rows; 0 stands for None.
login_first(rows, login_data) ==
    IF login_rows(rows, login_data) = {} THEN {0}
    ELSE login_rows(rows, login_data)

\* datetime.utcnow(): a time after every last_login of the table.
utcnow(rows) ==
    LET times == {rows[i].last_login[1] :
                      i \in {j \in 1..Len(rows) : rows[j].last_login # None}}
    IN IF times = {} THEN 1
       ELSE 1 + CHOOSE t \in times : \A x \in times : x <= t

\* A login that does not look at is_active.
login_user_any_status(rows, login_data, user) ==
    IF \/ user = 0
       \/ ~simple_password_check(login_data.password, rows[user].password)
    THEN [status |-> 401, rows |-> rows, data |-> None]
    ELSE LET row == [rows[user] EXCEPT !.last_login = Some(utcnow(rows))]
         IN [status |-> 200, rows |-> [rows EXCEPT ![user] = row],
             data |-> Some(UserResponse(user, row))]

\* login_user, user being what .first() returned.
login_user(rows, login_data, user) ==
    IF \/ user = 0
       \/ ~simple_password_check(login_data.password, rows[user].password)
    THEN [status |-> 401, rows |-> rows, data |-> None]
    ELSE IF ~rows[user].is_active
    THEN [status |-> 401, rows |-> rows, data |-> None]
    ELSE LET row == [rows[user] EXCEPT !.last_login = Some(utcnow(rows))]
         IN [status |-> 200, rows |-> [rows EXCEPT ![user] = row],
             data |-> Some(UserResponse(user, row))]

(***************************************************************************)
(* Heroes (src/src/models/hero.py, src/src/api/v1/endpoints/heroes.py).    *)
(*                                                                         *)
(* A row of the model is the part of a heroes row the handlers read: name, *)
(* power_level, is_active, abilities (a VARCHAR column: NULL or text),     *)
(* team and description.                                                   *)
(***************************************************************************)
HeroNames == {"Test Hero", "test hero", " Batman "}
StatsNames == {"Batman", "Robin"}
PowerLevels == {1, 20, 21, 51, 100}
AbilityLists == {<<>>, <<"fly", "run">>}
HeroIds == 1..MaxHeroId

\* ", ".join(xs)
RECURSIVE join(_)
join(xs) ==
    IF Len(xs) = 0 THEN ""
    ELSE IF Len(xs) = 1 THEN xs[1]
    ELSE xs[1] \o ", " \o join(Tail(xs))

\* json.dumps of a list of strings that need no escaping.
json_dumps(xs) ==
    "[" \o join([k \in 1..Len(xs) |-> "\"" \o xs[k] \o "\""]) \o "]"

\* heroes.py:40-41 and 199-200: a list that is truthy is replaced by its
\* JSON text; None and the empty list are left as they are.
dumped_abilities(a) ==
    IF a # None /\ Len(a[1]) > 0 THEN Some(json_dumps(a[1])) ELSE None

\* What is left as a Python list (the empty list) reaches the VARCHAR column
\* as a list, which the sqlite3 driver cannot bind: the statement raises.
abilities_bind_error(a) == a # None /\ Len(a[1]) = 0

\* The bodies FastAPI hands to create_hero after validating them as HeroCreate.
HeroCreateRequests ==
    [name : HeroNames, power_level : {50}, is_active : {TRUE},
     abilities : Optional(AbilityLists), team : {None}, description : {None}]

StatsCreateRequests ==
    [name : StatsNames, power_level : PowerLevels, is_active : BOOLEAN,
     abilities : {None}, team : {None}, description : {None}]

\* The bodies FastAPI hands to update_hero after validating them as HeroUpdate.
HeroUpdateRequests ==
    {upd \in [name : Optional(HeroNames), power_level : {Unset},
              is_active : Optional(BOOLEAN),
              abilities : Optional(AbilityLists)] :
        Cardinality({f \in DOMAIN upd : upd[f] # Unset}) <= MaxHeroFields}

StatsUpdateRequests ==
    {upd \in [name : Optional(StatsNames), power_level : Optional(PowerLevels),
              is_active : Optional(BOOLEAN), abilities : {Unset}] :
        Cardinality({f \in DOMAIN upd : upd[f] # Unset}) <= MaxHeroFields}

\* Hero(**hero_dict): SQLModel builds a table model without validation, so
\* Hero.validate_name (strip and title-case) does not run and the name is
\* stored as it was sent.
Hero(req) ==
    [name |-> req.name, power_level |-> req.power_level,
     is_active |-> req.is_active, abilities |-> dumped_abilities(req.abilities),
     team |-> req.team, description |-> req.description]

\* The UNIQUE index on heroes.name: writing row under id self (0 for an
\* insert) is refused when another row holds the name.
hero_unique_violation(rows, self, row) ==
    \E j \in DOMAIN rows : j # self /\ rows[j].name = row.name

SetMax(S) == CHOOSE m \in S : \A x \in S : x <= m

\* The id the engine assigns to an INTEGER PRIMARY KEY left NULL: one more
\* than the largest id in use.
next_hero_id(rows) == IF DOMAIN rows = {} THEN 1 ELSE SetMax(DOMAIN rows) + 1

\* HeroResponse.model_validate(hero) raises unless the abilities column can
\* be read as list[str] | None; the column holds NULL or a str, and a str
\* is not a list.
HeroResponse_raises(row) == row.abilities # None

\* The HeroResponse of a row whose abilities column is NULL.
HeroResponse(id, row) ==
    [id |-> id, name |-> row.name, power_level |-> row.power_level,
     is_active |-> row.is_active, abilities |-> None,
     team |-> row.team, description |-> row.description]

create_hero(rows, req) ==
    IF \E j \in DOMAIN rows : rows[j].name = req.name
    THEN [status |-> 409, rows |-> rows, data |-> None]
    ELSE IF \/ abilities_bind_error(req.abilities)
            \/ hero_unique_violation(rows, 0, Hero(req))
    \* db.commit() raises; "except Exception" rolls back and raises the 500.
    THEN [status |-> 500, rows |-> rows, data |-> None]
    ELSE LET id == next_hero_id(rows)
             committed == [j \in DOMAIN rows \cup {id} |->
                               IF j = id THEN Hero(req) ELSE rows[j]]
         IN IF HeroResponse_raises(Hero(req))
            \* The row is committed; "except Exception" calls rollback, which
            \* undoes nothing, and raises the 500.
            THEN [status |-> 500, rows |-> committed, data |-> None]
            ELSE [status |-> 201, rows |-> committed,
                  data |-> Some(HeroResponse(id, Hero(req)))]

get_hero(rows, hero_id) ==
    IF hero_id \notin DOMAIN rows
    THEN [status |-> 404, data |-> None]
    ELSE IF HeroResponse_raises(rows[hero_id])
    \* No handler catches the ValidationError: the server answers 500.
    THEN [status |-> 500, data |-> None]
    ELSE [status |-> 200, data |-> Some(HeroResponse(hero_id, rows[hero_id]))]

\* setattr(hero, field, value) for the fields the body carries.
apply_hero_update(row, upd) ==
    [f \in DOMAIN row |->
        IF f \notin DOMAIN upd \/ upd[f] = Unset THEN row[f]
        ELSE IF f = "abilities" THEN dumped_abilities(upd[f])
        ELSE upd[f][1]]

\* A name check that does not leave out the row that is updated.
hero_name_taken_including_self(rows, hero_id, name) ==
    \E j \in DOMAIN rows : rows[j].name = name

\* select(Hero).where(Hero.name == update_data["name"], Hero.id != hero_id)
\* .first() returns a row.
hero_name_taken(rows, hero_id, name) ==
    \E j \in DOMAIN rows : rows[j].name = name /\ j # hero_id

update_hero(rows, hero_id, upd) ==
    IF hero_id \notin DOMAIN rows
    THEN [status |-> 404, rows |-> rows, data |-> None]
    ELSE IF /\ upd.name # Unset
            /\ hero_name_taken(rows, hero_id, upd.name[1])
    THEN [status |-> 400, rows |-> rows, data |-> None]
    ELSE LET row == apply_hero_update(rows[hero_id], upd)
             committed == [rows EXCEPT ![hero_id] = row]
         IN IF \/ upd.abilities # Unset /\ abilities_bind_error(upd.abilities)
               \/ hero_unique_violation(rows, hero_id, row)
            THEN [status |-> 500, rows |-> rows, data |-> None]
            ELSE IF HeroResponse_raises(row)
            THEN [status |-> 500, rows |-> committed, data |-> None]
            ELSE [status |-> 200, rows |-> committed,
                  data |-> Some(HeroResponse(hero_id, row))]

delete_hero_soft(rows, hero_id) ==
    IF hero_id \notin DOMAIN rows
    THEN [status |-> 404, rows |-> rows]
    ELSE [status |-> 200, rows |-> [rows EXCEPT ![hero_id].is_active = FALSE]]

delete_hero(rows, hero_id) ==
    IF hero_id \notin DOMAIN rows
    THEN [status |-> 404, rows |-> rows]
    ELSE [status |-> 200,
          rows |-> [j \in DOMAIN rows \ {hero_id} |-> rows[j]]]

\* activate_hero (flag = TRUE) and deactivate_hero (flag = FALSE).
set_hero_active(rows, hero_id, flag) ==
    IF hero_id \notin DOMAIN rows
    THEN [status |-> 404, rows |-> rows, data |-> None]
    ELSE LET row == [rows[hero_id] EXCEPT !.is_active = flag]
             committed == [rows EXCEPT ![hero_id] = row]
         IN IF HeroResponse_raises(row)
            THEN [status |-> 500, rows |-> committed, data |-> None]
            ELSE [status |-> 200, rows |-> committed,
                  data |-> Some(HeroResponse(hero_id, row))]

activate_hero(rows, hero_id) == set_hero_active(rows, hero_id, TRUE)

deactivate_hero(rows, hero_id) == set_hero_active(rows, hero_id, FALSE)

\* Ranges that share their end points.
power_ranges_overlapping ==
    <<[min |-> 1, max |-> 20, label |-> "Low"],
      [min |-> 20, max |-> 50, label |-> "Medium"],
      [min |-> 50, max |-> 80, label |-> "High"],
      [min |-> 80, max |-> 100, label |-> "Legendary"]>>

power_ranges ==
    <<[min |-> 1, max |-> 20, label |-> "Low"],
      [min |-> 21, max |-> 50, label |-> "Medium"],
      [min |-> 51, max |-> 80, label |-> "High"],
      [min |-> 81, max |-> 100, label |-> "Legendary"]>>

active_hero_ids(rows) == {j \in DOMAIN rows : rows[j].is_active}

\* The statistics and the distribution; avg_power, a float, is left out.
get_power_distribution(rows) ==
    LET active == active_hero_ids(rows)
        levels == {rows[j].power_level : j \in active}
    IN [status |-> 200,
        statistics |->
            [min_power |-> IF active = {} THEN None
                           ELSE Some(CHOOSE m \in levels : \A x \in levels : m <= x),
             max_power |-> IF active = {} THEN None ELSE Some(SetMax(levels)),
             total_heroes |-> Cardinality(active)],
        distribution |->
            [k \in 1..Len(power_ranges) |->
                [label |-> power_ranges[k].label,
                 count |-> Cardinality({j \in DOMAIN rows :
                               /\ rows[j].power_level >= power_ranges[k].min
                               /\ rows[j].power_level <= power_ranges[k].max
                               /\ rows[j].is_active})]]]

(***************************************************************************)
(* get_heroes: the data query and the count query.                         *)
(***************************************************************************)
Teams == {"X"}
Descriptions == {"Flies in the dark"}
SearchTerms == {"", "bat", "IN"}
Skips == {0, 1}
Limits == {1, 2}

\* The heroes of the list specification: Batman with every choice of power
\* level, team and description, Robin with either power level, and a Robin
\* with a team and abilities.
ListCreateRequests ==
    [name : {"Batman"}, power_level : {20, 21}, is_active : {TRUE},
     abilities : {None}, team : Optional(Teams),
     description : Optional(Descriptions)]
    \cup [name : {"Robin"}, power_level : {20, 21}, is_active : {TRUE},
          abilities : {None}, team : {None}, description : {None}]
    \cup [name : {"Robin"}, power_level : {21}, is_active : {TRUE},
          abilities : {Some(<<"fly", "run">>)}, team : {Some("X")},
          description : {None}]

\* The query parameters FastAPI hands to get_heroes after validating them.
HeroQueries ==
    [skip : Skips, limit : Limits, active_only : BOOLEAN,
     team : Optional(Teams),
     min_power_level : Optional({21}), max_power_level : Optional({20}),
     search : Optional(SearchTerms)]

\* column ILIKE '%search%' on the texts of the model: the search text is
\* somewhere in the column, letter case aside; a NULL column matches nothing.
ilike_contains(column, search) ==
    /\ column # None
    /\ \/ search = "bat" /\ column[1] = "Batman"
       \/ search = "IN" /\ column[1] \in {"Robin", "Flies in the dark"}

\* The where clauses of the data query (heroes.py:84-101).
data_query_selects(row, q) ==
    /\ q.active_only => row.is_active
    /\ (q.team # None /\ q.team[1] # "") => row.team = q.team
    /\ q.min_power_level # None => row.power_level >= q.min_power_level[1]
    /\ q.max_power_level # None => row.power_level <= q.max_power_level[1]
    /\ (q.search # None /\ q.search[1] # "")
            => \/ ilike_contains(Some(row.name), q.search[1])
               \/ ilike_contains(row.description, q.search[1])

\* A count query that was not given the search clause.
total_query_selects_without_search(row, q) ==
    /\ q.active_only => row.is_active
    /\ (q.team # None /\ q.team[1] # "") => row.team = q.team
    /\ q.min_power_level # None => row.power_level >= q.min_power_level[1]
    /\ q.max_power_level # None => row.power_level <= q.max_power_level[1]

\* The where clauses of the count query (heroes.py:104-118).
total_query_selects(row, q) ==
    /\ q.active_only => row.is_active
    /\ (q.team # None /\ q.team[1] # "") => row.team = q.team
    /\ q.min_power_level # None => row.power_level >= q.min_power_level[1]
    /\ q.max_power_level # None => row.power_level <= q.max_power_level[1]
    /\ (q.search # None /\ q.search[1] # "")
            => \/ ilike_contains(Some(row.name), q.search[1])
               \/ ilike_contains(row.description, q.search[1])

\* The ids of a set in rising order: the order in which the engine scans
\* the table.
RECURSIVE ids_in_order(_)
ids_in_order(ids) ==
    IF ids = {} THEN <<>>
    ELSE LET least == CHOOSE m \in ids : \A x \in ids : m <= x
         IN <<least>> \o ids_in_order(ids \ {least})

get_heroes(rows, q) ==
    LET total == Cardinality({j \in DOMAIN rows : total_query_selects(rows[j], q)})
        selected == ids_in_order({j \in DOMAIN rows :
                                      data_query_selects(rows[j], q)})
        heroes_page == offset_limit(selected, q.skip, q.limit)
        pages == IF total > 0 THEN (total + q.limit - 1) \div q.limit ELSE 0
        current_page == (q.skip \div q.limit) + 1
    IN IF \E k \in 1..Len(heroes_page) : HeroResponse_raises(rows[heroes_page[k]])
       \* HeroListResponse(heroes=...) raises; nothing catches it.
       THEN [status |-> 500, data |-> None]
       ELSE [status |-> 200,
             data |-> Some([heroes |-> [k \in 1..Len(heroes_page) |->
                                HeroResponse(heroes_page[k], rows[heroes_page[k]])],
                            total |-> total, page |-> current_page,
                            size |-> q.limit, pages |-> pages])]

(***************************************************************************)
(* Files (src/src/api/v1/endpoints/files.py).                              *)
(*                                                                         *)
(* The upload directory is the set of its files; the file f"{file_id}{ext}"*)
(* is the record of its two parts and the length of its content.  An       *)
(* upload is its filename and the length of its content.                   *)
(***************************************************************************)
ALLOWED_EXTENSIONS ==
    [image |-> {".jpg", ".jpeg", ".png", ".gif", ".bmp", ".webp"},
     document |-> {".pdf", ".doc", ".docx", ".txt", ".rtf"},
     archive |-> {".zip", ".rar", ".7z", ".tar", ".gz"},
     video |-> {".mp4", ".avi", ".mov", ".wmv", ".flv"},
     audio |-> {".mp3", ".wav", ".flac", ".aac"}]

MAX_FILE_SIZE == 10 * 1024 * 1024

UploadNames == {"a.txt", "B.PNG", "c.exe", "notes", ""}
UploadSizes == {0, MAX_FILE_SIZE, MAX_FILE_SIZE + 1}
UploadFiles == [filename : UploadNames, size : UploadSizes]

\* The values uuid.uuid4() returns.
Uuids == {"u1", "u2", "u3"}

\* Path(filename).suffix.lower() on the filenames of the model.
suffix_lower(filename) ==
    CASE filename = "a.txt" -> ".txt"
      [] filename = "B.PNG" -> ".png"
      [] filename = "c.exe" -> ".exe"
      [] OTHER -> ""

all_extensions == UNION {ALLOWED_EXTENSIONS[t] : t \in DOMAIN ALLOWED_EXTENSIONS}

\* The status validate_file raises, 0 when it returns.
validate_file(file) ==
    IF file.filename = "" THEN 400
    ELSE IF suffix_lower(file.filename) \notin all_extensions THEN 400
    ELSE 0

\* A save_file that writes the content before it looks at its length.
save_file_write_first(dir, file, file_id) ==
    LET written == dir \cup {[file_id |-> file_id,
                              ext |-> suffix_lower(file.filename),
                              size |-> file.size]}
    IN IF file.size > MAX_FILE_SIZE
       THEN [status |-> 413, files |-> written]
       ELSE [status |-> 200, files |-> written]

save_file(dir, file, file_id) ==
    IF file.size > MAX_FILE_SIZE
    THEN [status |-> 413, files |-> dir]
    ELSE [status |-> 200,
          files |-> dir \cup {[file_id |-> file_id,
                               ext |-> suffix_lower(file.filename),
                               size |-> file.size]}]

upload_single_file(dir, file, file_id) ==
    IF validate_file(file) # 0
    THEN [status |-> validate_file(file), files |-> dir]
    ELSE save_file(dir, file, file_id)

\* The file_id of a path: the uuid of an upload or any other text without
\* a slash, the pattern * among them.
FileIdParams == Uuids \cup {"*"}

\* A lookup that takes file_id for a name, not for a pattern.
glob_matches_literally(pattern, stem) == pattern = stem

\* The pattern, which is the file_id as it came, matches the stem of a file
\* name: * matches every stem, a uuid matches itself.
glob_matches(pattern, stem) == pattern = "*" \/ pattern = stem

\* UPLOAD_DIR.glob(f"{file_id}.*")
matching_files(dir, file_id) ==
    {f \in dir : glob_matches(file_id, f.file_id) /\ f.ext # ""}

\* matching_files[0] where the list is not empty: glob yields the files in
\* the order of the directory, which is any order.
first_matching(dir, file_id) ==
    IF matching_files(dir, file_id) = {} THEN {None}
    ELSE {Some(f) : f \in matching_files(dir, file_id)}

\* download_file, first being matching_files[0] or None for an empty list.
\* The answer is the success envelope without data or the content of the
\* file (its length in the model).
download_file(dir, file_id, first) ==
    IF first = None
    THEN [status |-> 200, files |-> dir, data |-> None, content |-> None]
    ELSE [status |-> 200, files |-> dir, data |-> None,
          content |-> Some(first[1].size)]

\* A delete_file that answers 404 when it finds no file.
delete_file_404(dir, file_id, first) ==
    IF first = None
    THEN [status |-> 404, files |-> dir, data |-> None, content |-> None]
    ELSE [status |-> 200, files |-> dir \ {first[1]},
          data |-> Some([file_id |-> file_id, deleted |-> TRUE]),
          content |-> None]

delete_file(dir, file_id, first) ==
    IF first = None
    THEN [status |-> 200, files |-> dir, data |-> None, content |-> None]
    ELSE [status |-> 200, files |-> dir \ {first[1]},
          data |-> Some([file_id |-> file_id, deleted |-> TRUE]),
          content |-> None]

get_file_info(dir, file_id, first) ==
    IF first = None
    THEN [status |-> 200, files |-> dir, data |-> None, content |-> None]
    ELSE [status |-> 200, files |-> dir,
          data |-> Some([file_id |-> file_id,
                         filename |-> first[1].file_id \o first[1].ext,
                         file_size |-> first[1].size]),
          content |-> None]

\* list_files: the entries come in the order of the directory, which the
\* model leaves out.
list_files(dir) ==
    [status |-> 200, files |-> dir,
     data |-> Some([files |-> {[file_id |-> f.file_id,
                                filename |-> f.file_id \o f.ext,
                                file_size |-> f.size] : f \in dir},
                    total_count |-> Cardinality(dir)]),
     content |-> None]

\* The most files one upload_multiple_files request may carry.
MAX_FILES_PER_REQUEST == 10

\* The files a batch is made of: one that is saved, one with an extension
\* that is not allowed, one that is too long.
BatchFiles ==
    {[filename |-> "a.txt", size |-> MAX_FILE_SIZE],
     [filename |-> "c.exe", size |-> 0],
     [filename |-> "B.PNG", size |-> MAX_FILE_SIZE + 1]}

\* The bodies of upload_multiple_files: no file or any one file, followed
\* by copies of one file.
Batches ==
    UNION {{head \o [k \in 1..n |-> file] :
                n \in 0..(MaxBatch - Len(head)), file \in BatchFiles} :
           head \in {<<>>} \cup {<<first>> : first \in BatchFiles}}

\* uuid.uuid4() inside a batch: uuid4 values do not repeat and no handler
\* looks into one, so a batch draws the first value no file carries.
fresh_uuid(dir) ==
    LET used == {f.file_id : f \in dir}
        uuid(k) == "u" \o ToString(k)
    IN uuid(CHOOSE k \in 1..(Cardinality(dir) + 1) :
                /\ uuid(k) \notin used
                /\ \A j \in 1..(k - 1) : uuid(j) \in used)

too_many_files_ge(batch) == Len(batch) >= MAX_FILES_PER_REQUEST

too_many_files(batch) == Len(batch) > MAX_FILES_PER_REQUEST

\* The loop of upload_multiple_files over the first k files: the directory
\* and the two lists after them.  Every exception of validate_file and
\* save_file, the HTTPException of a refusal included, is caught and the
\* file goes to failed_files.
RECURSIVE process_files(_, _, _)
process_files(dir, batch, k) ==
    IF k = 0
    THEN [files |-> dir, uploaded_files |-> <<>>, failed_files |-> <<>>]
    ELSE LET done == process_files(dir, batch, k - 1)
             file_id == fresh_uuid(done.files)
             r == upload_single_file(done.files, batch[k], file_id)
         IN IF r.status = 200
            THEN [files |-> r.files,
                  uploaded_files |-> Append(done.uploaded_files,
                      [file_id |-> file_id, original_name |-> batch[k].filename,
                       file_size |-> batch[k].size]),
                  failed_files |-> done.failed_files]
            ELSE [files |-> done.files,
                  uploaded_files |-> done.uploaded_files,
                  failed_files |-> Append(done.failed_files,
                      [filename |-> batch[k].filename, error |-> r.status])]

\* A loop that gives up at the first file that fails.
RECURSIVE process_files_fail_fast(_, _, _)
process_files_fail_fast(dir, batch, k) ==
    IF k = 0
    THEN [files |-> dir, uploaded_files |-> <<>>, failed_files |-> <<>>]
    ELSE LET done == process_files_fail_fast(dir, batch, k - 1)
             file_id == fresh_uuid(done.files)
             r == upload_single_file(done.files, batch[k], file_id)
         IN IF Len(done.failed_files) > 0
            THEN done
            ELSE IF r.status = 200
            THEN [files |-> r.files,
                  uploaded_files |-> Append(done.uploaded_files,
                      [file_id |-> file_id, original_name |-> batch[k].filename,
                       file_size |-> batch[k].size]),
                  failed_files |-> done.failed_files]
            ELSE [files |-> done.files,
                  uploaded_files |-> done.uploaded_files,
                  failed_files |-> Append(done.failed_files,
                      [filename |-> batch[k].filename, error |-> r.status])]

process_batch_fail_fast(dir, batch) == process_files_fail_fast(dir, batch, Len(batch))

process_batch(dir, batch) == process_files(dir, batch, Len(batch))

upload_multiple_files(dir, batch) ==
    IF too_many_files(batch)
    THEN [status |-> 400, files |-> dir, data |-> None]
    ELSE LET done == process_batch(dir, batch)
         IN [status |-> 200, files |-> done.files,
             data |-> Some([uploaded_files |-> done.uploaded_files,
                            failed_files |-> done.failed_files,
                            total_uploaded |-> Len(done.uploaded_files),
                            total_failed |-> Len(done.failed_files)])]

(***************************************************************************)
(* The bodies of error responses: the exception handlers of the app.       *)
(***************************************************************************)

\* json_error_response: the error envelope; error_code is in the body only
\* when the handler gives one.
json_error_response(error_code, status_code) ==
    [status |-> status_code,
     body |-> [success |-> FALSE, data |-> None, error_code |-> error_code]]

\* @app.exception_handler(404)
not_found_handler == json_error_response(Some("NOT_FOUND"), 404)

\* @app.exception_handler(HTTPException): the status of the exception, no
\* error_code.
http_exception_handler(status_code) == json_error_response(None, status_code)

\* The status codes that have a handler of their own in the exception
\* middleware (the handler registered for 500 goes to the server error
\* middleware, which does not see an HTTPException).
status_handlers == {404}

\* A lookup that goes by the class of the exception only.
exception_response_by_class(status_code) == http_exception_handler(status_code)

\* The response to an HTTPException a handler raised: the handler of its
\* status code when there is one, else the handler of its class.
exception_response(status_code) ==
    IF status_code \in status_handlers
    THEN not_found_handler
    ELSE http_exception_handler(status_code)

(***************************************************************************)
(* Initial state: empty tables, an empty upload directory, no request.     *)
(***************************************************************************)
NoResp == [op |-> "none", status |-> 0]

Init ==
    /\ users = <<>>
    /\ heroes = <<>>
    /\ files = {}
    /\ resp = NoResp
    /\ reqs = <<>>
    /\ pg = None

(***************************************************************************)
(* The user handlers, one request at a time.                               *)
(***************************************************************************)
CreateUserFrom(Requests) ==
    \E req \in Requests :
        LET r == create_user(users, req) IN
        /\ Len(r.rows) <= MaxUsers
        /\ users' = r.rows
        /\ resp' = [op |-> "create_user", status |-> r.status,
                    username |-> req.username, email |-> req.email,
                    data |-> r.data]
        /\ UNCHANGED <<heroes, files, reqs, pg>>

GetUser ==
    \E id \in UserIds :
        LET r == get_user(users, id) IN
        /\ resp' = [op |-> "get_user", status |-> r.status, id |-> id,
                    data |-> r.data]
        /\ UNCHANGED <<users, heroes, files, reqs, pg>>

GetUsers ==
    \E page \in 1..MaxPage, size \in 1..MaxSize :
        LET r == get_users(users, page, size) IN
        /\ resp' = [op |-> "get_users", status |-> r.status, data |-> r.data]
        /\ UNCHANGED <<users, heroes, files, reqs, pg>>

UpdateUserFrom(Requests) ==
    \E id \in UserIds, upd \in Requests :
        LET r == update_user(users, id, upd) IN
        /\ users' = r.rows
        /\ resp' = [op |-> "update_user", status |-> r.status, id |-> id,
                    data |-> r.data]
        /\ UNCHANGED <<heroes, files, reqs, pg>>

DeleteUser ==
    \E id \in UserIds :
        LET r == delete_user(users, id) IN
        /\ users' = r.rows
        /\ resp' = [op |-> "delete_user", status |-> r.status, id |-> id]
        /\ UNCHANGED <<heroes, files, reqs, pg>>

CreateUser == CreateUserFrom(UserCreateRequests)

UpdateUser == UpdateUserFrom(UserUpdateRequests)

LoginUser ==
    \E login_data \in UserLoginRequests :
        \E user \in login_first(users, login_data) :
            LET r == login_user(users, login_data, user) IN
            /\ utcnow(users) <= MaxLogins
            /\ users' = r.rows
            /\ resp' = [op |-> "login_user", status |-> r.status,
                        login_data |-> login_data, data |-> r.data]
            /\ UNCHANGED <<heroes, files, reqs, pg>>

Next ==
    \/ CreateUser
    \/ GetUser
    \/ GetUsers
    \/ UpdateUser
    \/ DeleteUser

Spec == Init /\ [][Next]_vars

\* Logins among the requests that change what a login reads.
LoginNext ==
    \/ CreateUserFrom(LoginCreateRequests)
    \/ UpdateUserFrom(LoginUpdateRequests)
    \/ DeleteUser
    \/ LoginUser

LoginSpec == Init /\ [][LoginNext]_vars

(***************************************************************************)
(* The hero handlers, one request at a time.  HeroSpec sends names in      *)
(* several spellings and abilities lists; StatsSpec sends power levels     *)
(* from every range and both values of is_active.                          *)
(***************************************************************************)
CreateHero(Requests) ==
    \E req \in Requests :
        LET r == create_hero(heroes, req) IN
        /\ Cardinality(DOMAIN r.rows) <= MaxHeroes
        /\ DOMAIN r.rows \subseteq HeroIds
        /\ heroes' = r.rows
        /\ resp' = [op |-> "create_hero", status |-> r.status,
                    req |-> req, data |-> r.data]
        /\ UNCHANGED <<users, files, reqs, pg>>

GetHero ==
    \E id \in HeroIds :
        LET r == get_hero(heroes, id) IN
        /\ resp' = [op |-> "get_hero", status |-> r.status, id |-> id,
                    data |-> r.data]
        /\ UNCHANGED <<users, heroes, files, reqs, pg>>

UpdateHero(Requests) ==
    \E id \in HeroIds, upd \in Requests :
        LET r == update_hero(heroes, id, upd) IN
        /\ heroes' = r.rows
        /\ resp' = [op |-> "update_hero", status |-> r.status, id |-> id,
                    data |-> r.data]
        /\ UNCHANGED <<users, files, reqs, pg>>

DeleteHero ==
    \E id \in HeroIds :
        LET r == delete_hero(heroes, id) IN
        /\ heroes' = r.rows
        /\ resp' = [op |-> "delete_hero", status |-> r.status, id |-> id]
        /\ UNCHANGED <<users, files, reqs, pg>>

ActivateHero ==
    \E id \in HeroIds :
        LET r == activate_hero(heroes, id) IN
        /\ heroes' = r.rows
        /\ resp' = [op |-> "activate_hero", status |-> r.status, id |-> id,
                    data |-> r.data]
        /\ UNCHANGED <<users, files, reqs, pg>>

DeactivateHero ==
    \E id \in HeroIds :
        LET r == deactivate_hero(heroes, id) IN
        /\ heroes' = r.rows
        /\ resp' = [op |-> "deactivate_hero", status |-> r.status, id |-> id,
                    data |-> r.data]
        /\ UNCHANGED <<users, files, reqs, pg>>

GetPowerDistribution ==
    LET r == get_power_distribution(heroes) IN
    /\ resp' = [op |-> "get_power_distribution", status |-> r.status,
                statistics |-> r.statistics, distribution |-> r.distribution]
    /\ UNCHANGED <<users, heroes, files, reqs, pg>>

HeroNext ==
    \/ CreateHero(HeroCreateRequests)
    \/ GetHero
    \/ UpdateHero(HeroUpdateRequests)
    \/ DeleteHero
    \/ ActivateHero
    \/ DeactivateHero
    \/ GetPowerDistribution

HeroSpec == Init /\ [][HeroNext]_vars

\* is_password_strong on its own.
CheckPassword ==
    \E password \in PasswordInputs :
        LET r == is_password_strong(password) IN
        /\ resp' = [op |-> "is_password_strong", status |-> 0,
                    password |-> password, is_valid |-> r.is_valid,
                    issues |-> r.issues]
        /\ UNCHANGED <<users, heroes, files, reqs, pg>>

PasswordNext == CheckPassword

PasswordSpec == Init /\ [][PasswordNext]_vars

\* The requests of the specification of the handlers that take an id.
ByIdUserCreateRequests ==
    [username : Usernames, email : Emails, password : {"secret1"},
     is_active : {TRUE}]

ByIdUserUpdateRequests ==
    [username : {Unset}, email : {Unset}, password : Optional({"Password"}),
     is_active : Optional({FALSE})]

ByIdHeroCreateRequests ==
    [name : {"Test Hero", " Batman "}, power_level : {50}, is_active : {TRUE},
     abilities : {None}, team : {None}, description : {None}]

ByIdHeroUpdateRequests ==
    [name : Optional({"Test Hero"}), power_level : {Unset},
     is_active : Optional({FALSE}), abilities : {Unset}]

ByIdNext ==
    \/ CreateUserFrom(ByIdUserCreateRequests)
    \/ GetUser
    \/ UpdateUserFrom(ByIdUserUpdateRequests)
    \/ DeleteUser
    \/ CreateHero(ByIdHeroCreateRequests)
    \/ GetHero
    \/ UpdateHero(ByIdHeroUpdateRequests)
    \/ DeleteHero
    \/ ActivateHero
    \/ DeactivateHero

ByIdSpec == Init /\ [][ByIdNext]_vars

StatsNext ==
    \/ CreateHero(StatsCreateRequests)
    \/ GetHero
    \/ UpdateHero(StatsUpdateRequests)
    \/ DeleteHero
    \/ ActivateHero
    \/ DeactivateHero
    \/ GetPowerDistribution

StatsSpec == Init /\ [][StatsNext]_vars

(***************************************************************************)
(* Lists of heroes that differ in team, description and power level.       *)
(***************************************************************************)
GetHeroes ==
    \E q \in HeroQueries :
        LET r == get_heroes(heroes, q) IN
        /\ resp' = [op |-> "get_heroes", status |-> r.status, data |-> r.data]
        /\ UNCHANGED <<users, heroes, files, reqs, pg>>

ListNext ==
    \/ CreateHero(ListCreateRequests)
    \/ DeactivateHero
    \/ GetHeroes

ListSpec == Init /\ [][ListNext]_vars

(***************************************************************************)
(* The file handlers.  uuid4 values do not repeat, so an upload draws a    *)
(* file_id that no file of the directory carries.                          *)
(***************************************************************************)
UploadSingleFile ==
    \E file \in UploadFiles, file_id \in Uuids :
        LET r == upload_single_file(files, file, file_id) IN
        /\ \A f \in files : f.file_id # file_id
        /\ Cardinality(r.files) <= MaxFiles
        /\ files' = r.files
        /\ resp' = [op |-> "upload_single_file", status |-> r.status,
                    file |-> file]
        /\ UNCHANGED <<users, heroes, reqs, pg>>

DeleteFile ==
    \E file_id \in FileIdParams :
        \E first \in first_matching(files, file_id) :
            LET r == delete_file(files, file_id, first) IN
            /\ files' = r.files
            /\ resp' = [op |-> "delete_file", status |-> r.status,
                        file_id |-> file_id, data |-> r.data,
                        content |-> r.content]
            /\ UNCHANGED <<users, heroes, reqs, pg>>

DownloadFile ==
    \E file_id \in FileIdParams :
        \E first \in first_matching(files, file_id) :
            LET r == download_file(files, file_id, first) IN
            /\ files' = r.files
            /\ resp' = [op |-> "download_file", status |-> r.status,
                        file_id |-> file_id, data |-> r.data,
                        content |-> r.content]
            /\ UNCHANGED <<users, heroes, reqs, pg>>

GetFileInfo ==
    \E file_id \in FileIdParams :
        \E first \in first_matching(files, file_id) :
            LET r == get_file_info(files, file_id, first) IN
            /\ files' = r.files
            /\ resp' = [op |-> "get_file_info", status |-> r.status,
                        file_id |-> file_id, data |-> r.data,
                        content |-> r.content]
            /\ UNCHANGED <<users, heroes, reqs, pg>>

ListFiles ==
    LET r == list_files(files) IN
    /\ files' = r.files
    /\ resp' = [op |-> "list_files", status |-> r.status, data |-> r.data]
    /\ UNCHANGED <<users, heroes, reqs, pg>>

FileNext ==
    \/ UploadSingleFile
    \/ DeleteFile
    \/ DownloadFile
    \/ GetFileInfo
    \/ ListFiles

FileSpec == Init /\ [][FileNext]_vars

(***************************************************************************)
(* Batches of uploads into a directory that nothing is deleted from.       *)
(***************************************************************************)
UploadMultipleFiles ==
    \E batch \in Batches :
        LET r == upload_multiple_files(files, batch) IN
        /\ Cardinality(r.files) <= MaxDirFiles
        /\ files' = r.files
        /\ resp' = [op |-> "upload_multiple_files", status |-> r.status,
                    files |-> batch, data |-> r.data]
        /\ UNCHANGED <<users, heroes, reqs, pg>>

BatchNext == UploadMultipleFiles

BatchSpec == Init /\ [][BatchNext]_vars

(***************************************************************************)
(* PaginatedResponse.create as a pure function: the initial state draws    *)
(* the arguments, the one action applies the function.                     *)
(***************************************************************************)
PageInit ==
    /\ users = <<>>
    /\ heroes = <<>>
    /\ files = {}
    /\ resp = NoResp
    /\ reqs = <<>>
    /\ pg \in [total : 0..MaxTotal, page : 1..MaxPage, size : 1..MaxSize,
               out : {None}]

Paginate ==
    /\ pg.out = None
    /\ pg' = [pg EXCEPT !.out = Some(PaginatedResponse_create(<<>>, pg.total,
                                                             pg.page, pg.size))]
    /\ UNCHANGED <<users, heroes, files, resp, reqs>>

PageNext == Paginate

PageSpec == PageInit /\ [][PageNext]_vars

(***************************************************************************)
(* paginate_query as a pure function of the rows its query selects, which  *)
(* the database returns in the same order for the count and for every      *)
(* page: the initial state draws the table and the parameters, the one     *)
(* action applies the function.                                            *)
(***************************************************************************)
\* The rows the query selects from a table of total rows, in their order.
query_rows(total) == [k \in 1..total |-> 2 * k]

PaginateQuery ==
    /\ pg.out = None
    /\ pg' = [pg EXCEPT !.out = Some(paginate_query(query_rows(pg.total),
                                                    pg.page, pg.size))]
    /\ UNCHANGED <<users, heroes, files, resp, reqs>>

QueryNext == PaginateQuery

QuerySpec == PageInit /\ [][QueryNext]_vars

(***************************************************************************)
(* Concurrent create_user requests: every database statement of the        *)
(* handler is a step of its own, so the statements of the requests in      *)
(* flight interleave in every order.  The insert and its commit are one    *)
(* statement of the database, which checks the UNIQUE indexes in it.       *)
(***************************************************************************)
Procs == 1..NumProcs

RaceRequests ==
    [username : Usernames, email : Emails, password : {"secret1", "Password"},
     is_active : BOOLEAN]

Idle == [pc |-> "idle", status |-> 0]

RaceInit ==
    /\ users = <<>>
    /\ heroes = <<>>
    /\ files = {}
    /\ resp = NoResp
    /\ reqs = [p \in Procs |-> Idle]
    /\ pg = None

\* The request reaches the handler.
Begin(p) ==
    \E req \in RaceRequests :
        /\ reqs[p].pc = "idle"
        /\ reqs' = [reqs EXCEPT ![p] = [pc |-> "check_username", status |-> 0,
                                        req |-> req]]
        /\ UNCHANGED <<users, heroes, files, resp, pg>>

\* users.py:53-61
CheckUsername(p) ==
    /\ reqs[p].pc = "check_username"
    /\ reqs' = [reqs EXCEPT ![p] =
                   IF existing_user(users, reqs[p].req)
                   THEN [@ EXCEPT !.pc = "done", !.status = 409]
                   ELSE [@ EXCEPT !.pc = "check_email"]]
    /\ UNCHANGED <<users, heroes, files, resp, pg>>

\* users.py:64-72
CheckEmail(p) ==
    /\ reqs[p].pc = "check_email"
    /\ reqs' = [reqs EXCEPT ![p] =
                   IF existing_email(users, reqs[p].req)
                   THEN [@ EXCEPT !.pc = "done", !.status = 409]
                   ELSE [@ EXCEPT !.pc = "insert"]]
    /\ UNCHANGED <<users, heroes, files, resp, pg>>

\* users.py:75-105
InsertCommit(p) ==
    /\ reqs[p].pc = "insert"
    /\ LET req == reqs[p].req
           status == IF ~is_password_strong(req.password).is_valid THEN 422
                     ELSE IF user_unique_violation(users, 0, User(req)) THEN 500
                     ELSE 201
       IN /\ users' = IF status = 201 THEN Append(users, User(req)) ELSE users
          /\ reqs' = [reqs EXCEPT ![p] = [@ EXCEPT !.pc = "done",
                                                   !.status = status]]
    /\ UNCHANGED <<heroes, files, resp, pg>>

RaceNext ==
    \E p \in Procs :
        \/ Begin(p)
        \/ CheckUsername(p)
        \/ CheckEmail(p)
        \/ InsertCommit(p)

RaceSpec == RaceInit /\ [][RaceNext]_vars

(***************************************************************************)
(* Concurrent delete_file requests on one upload directory: the lookup     *)
(* (glob) and the unlink are two calls of the file system, and the calls   *)
(* of requests that are served by different workers interleave in every    *)
(* order.                                                                  *)
(***************************************************************************)
\* The directories uploads leave behind: every file under a uuid of its own.
StoredDirs ==
    {dir \in SUBSET [file_id : {"u1", "u2"}, ext : {".txt", ".png"}, size : {0}] :
        \A f, g \in dir : f.file_id = g.file_id => f = g}

DeleteRaceInit ==
    /\ users = <<>>
    /\ heroes = <<>>
    /\ files \in StoredDirs
    /\ resp = NoResp
    /\ reqs = [p \in Procs |-> Idle]
    /\ pg = None

\* The request reaches the handler; existed tells whether a file was stored
\* under file_id at that moment.
DeleteBegin(p) ==
    \E file_id \in Uuids :
        /\ reqs[p].pc = "idle"
        /\ reqs' = [reqs EXCEPT ![p] =
                       [pc |-> "lookup", status |-> 0, file_id |-> file_id,
                        existed |-> matching_files(files, file_id) # {},
                        path |-> None, data |-> None]]
        /\ UNCHANGED <<users, heroes, files, resp, pg>>

\* files.py:164-170
DeleteLookup(p) ==
    /\ reqs[p].pc = "lookup"
    /\ \E first \in first_matching(files, reqs[p].file_id) :
        /\ reqs' = [reqs EXCEPT ![p] =
                       IF first = None
                       THEN [@ EXCEPT !.pc = "done", !.status = 200]
                       ELSE [@ EXCEPT !.pc = "unlink", !.path = first]]
        /\ UNCHANGED <<users, heroes, files, resp, pg>>

\* files.py:172-181: unlink raises FileNotFoundError when the file is gone,
\* and the handler answers 500.
DeleteUnlink(p) ==
    /\ reqs[p].pc = "unlink"
    /\ LET f == reqs[p].path[1] IN
       IF f \in files
       THEN /\ files' = files \ {f}
            /\ reqs' = [reqs EXCEPT ![p] =
                           [@ EXCEPT !.pc = "done", !.status = 200,
                                     !.data = Some([file_id |-> reqs[p].file_id,
                                                    deleted |-> TRUE])]]
       ELSE /\ files' = files
            /\ reqs' = [reqs EXCEPT ![p] = [@ EXCEPT !.pc = "done",
                                                     !.status = 500]]
    /\ UNCHANGED <<users, heroes, resp, pg>>

DeleteRaceNext ==
    \E p \in Procs :
        \/ DeleteBegin(p)
        \/ DeleteLookup(p)
        \/ DeleteUnlink(p)

DeleteRaceSpec == DeleteRaceInit /\ [][DeleteRaceNext]_vars

(***************************************************************************)
(* The session provider (src/src/db/connection.py): get_db_session yields  *)
(* from Database.get_session, a generator FastAPI runs around the handler  *)
(* of every request that depends on it.  reqs[p] is the request of p: the  *)
(* position of its provider, the state of its session, who has called      *)
(* commit on the session, and whether the provider rolled it back.         *)
(***************************************************************************)
NoRequest ==
    [pc |-> "idle", session |-> "none", opened |-> 0, commits |-> {},
     rolled_back |-> FALSE, raised |-> FALSE]

SessionInit ==
    /\ users = <<>>
    /\ heroes = <<>>
    /\ files = {}
    /\ resp = NoResp
    /\ reqs = [p \in Procs |-> NoRequest]
    /\ pg = None

\* A provider that commits when the handler has returned.
after_yield_committing(r) ==
    [r EXCEPT !.pc = "finally", !.commits = @ \cup {"provider"}]

\* connection.py:67-68: the handler has returned and the generator goes on
\* after the yield; the try block ends there, without a commit.
after_yield(r) == [r EXCEPT !.pc = "finally"]

\* connection.py:66-68: session = Session(self.engine); yield session
OpenSession(p) ==
    /\ reqs[p].pc = "idle"
    /\ reqs' = [reqs EXCEPT ![p] = [@ EXCEPT !.pc = "yielded",
                                             !.session = "open",
                                             !.opened = @ + 1]]
    /\ UNCHANGED <<users, heroes, files, resp, pg>>

\* The handler runs with the session and returns: a handler that writes has
\* called db.commit() itself (create_user), one that reads has not (get_user).
HandlerReturns(p) ==
    \E committed \in BOOLEAN :
        /\ reqs[p].pc = "yielded"
        /\ reqs' = [reqs EXCEPT ![p] =
                       [@ EXCEPT !.pc = "resumed",
                                 !.commits = IF committed
                                             THEN @ \cup {"handler"} ELSE @]]
        /\ UNCHANGED <<users, heroes, files, resp, pg>>

\* The handler raises, before a commit (the 404 of get_user) or after one
\* (create_hero failing on its response); FastAPI throws the exception into
\* the generator at the yield.
HandlerRaises(p) ==
    \E committed \in BOOLEAN :
        /\ reqs[p].pc = "yielded"
        /\ reqs' = [reqs EXCEPT ![p] =
                       [@ EXCEPT !.pc = "except", !.raised = TRUE,
                                 !.commits = IF committed
                                             THEN @ \cup {"handler"} ELSE @]]
        /\ UNCHANGED <<users, heroes, files, resp, pg>>

AfterYield(p) ==
    /\ reqs[p].pc = "resumed"
    /\ reqs' = [reqs EXCEPT ![p] = after_yield(@)]
    /\ UNCHANGED <<users, heroes, files, resp, pg>>

\* connection.py:69-76: session.rollback(); raise
Rollback(p) ==
    /\ reqs[p].pc = "except"
    /\ reqs' = [reqs EXCEPT ![p] = [@ EXCEPT !.pc = "finally",
                                             !.rolled_back = TRUE]]
    /\ UNCHANGED <<users, heroes, files, resp, pg>>

\* connection.py:77-78: finally: session.close(); the request has ended.
CloseSession(p) ==
    /\ reqs[p].pc = "finally"
    /\ reqs' = [reqs EXCEPT ![p] = [@ EXCEPT !.pc = "ended",
                                             !.session = "closed"]]
    /\ UNCHANGED <<users, heroes, files, resp, pg>>

SessionNext ==
    \E p \in Procs :
        \/ OpenSession(p)
        \/ HandlerReturns(p)
        \/ HandlerRaises(p)
        \/ AfterYield(p)
        \/ Rollback(p)
        \/ CloseSession(p)

SessionSpec == SessionInit /\ [][SessionNext]_vars

(***************************************************************************)
(* Claims about the user handlers and the pagination helper.               *)
(***************************************************************************)
\* Some active row holds the username or the email.
ActiveHolder(rows, username, email) ==
    \E i \in 1..Len(rows) :
        /\ rows[i].is_active
        /\ rows[i].username = username \/ rows[i].email = email

\* C1: whenever create_user is called with a username or an email that an
\* active row already holds, the response is 409 and the users table is
\* the same as before the request.
C1_ActiveDuplicateIs409 ==
    [][(resp'.op = "create_user"
        /\ ActiveHolder(users, resp'.username, resp'.email))
       => (resp'.status = 409 /\ users' = users)]_vars

\* A create_user refused with 409 for its email alone: no row holds its username.
C1_Witness ==
    /\ resp.op = "create_user"
    /\ resp.status = 409
    /\ \E i \in 1..Len(users) : users[i].is_active /\ users[i].email = resp.email
    /\ \A i \in 1..Len(users) : users[i].username # resp.username

\* C2: under every interleaving of concurrent create_user requests, no
\* username and no email is ever held by more than one row.
C2_NoDuplicateRowUnderRace ==
    /\ \A u \in Usernames :
           Cardinality({i \in 1..Len(users) : users[i].username = u}) <= 1
    /\ \A e \in Emails :
           Cardinality({i \in 1..Len(users) : users[i].email = e}) <= 1

\* Two requests with the same username both passed the handler's checks; the
\* first insert was committed, the unique index refused the second.
C2_Witness ==
    \E p, q \in Procs :
        /\ p # q
        /\ reqs[p].pc = "done" /\ reqs[p].status = 201
        /\ reqs[q].pc = "done" /\ reqs[q].status = 500
        /\ reqs[p].req.is_active
        /\ reqs[p].req.username = reqs[q].req.username
        /\ reqs[p].req.email # reqs[q].req.email

\* C3: in every state that create_user, update_user and delete_user reach,
\* no two active rows have the same username and no two active rows have
\* the same email.
C3_ActiveRowsUnique ==
    \A i, j \in 1..Len(users) :
        (i # j /\ users[i].is_active /\ users[j].is_active)
            => (users[i].username # users[j].username
                /\ users[i].email # users[j].email)

\* An update_user that tried to give an active row the username or email of
\* the other active row, and was refused.
C3_Witness ==
    /\ resp.op = "update_user"
    /\ resp.status = 500
    /\ Len(users) = 2
    /\ users[1].is_active /\ users[2].is_active

\* ceil(total / size) for size >= 1, as the least number of pages of that
\* size that hold total items.
Ceil(total, size) ==
    CHOOSE n \in 0..total : n * size >= total /\ (n - 1) * size < total

\* C4: PaginatedResponse.create returns pages = ceil(total/size) when
\* total > 0 and pages = 0 when total = 0, has_next exactly when
\* page < pages, and has_prev exactly when page > 1.
C4_PagesHasNextHasPrev ==
    (pg # None /\ pg.out # None) =>
        LET r == pg.out[1] IN
        /\ pg.total > 0 => r.pages = Ceil(pg.total, pg.size)
        /\ pg.total = 0 => r.pages = 0
        /\ r.has_next <=> (pg.total > 0 /\ pg.page < Ceil(pg.total, pg.size))
        /\ r.has_prev <=> pg.page > 1

\* A middle page of a total that the size does not divide.
C4_Witness ==
    /\ pg # None
    /\ pg.out # None
    /\ pg.total % pg.size # 0
    /\ pg.page > 1
    /\ pg.out[1].has_next
    /\ pg.out[1].has_prev

\* The ids of the users on the page that get_users returns.
ListedIds(rows, page, size) ==
    LET items == get_users(rows, page, size).data.items
    IN {items[k].id : k \in 1..Len(items)}

\* C5: a successful delete_user leaves the row in the table with
\* is_active = false; an inactive row is on no page of get_users while
\* get_user still returns it by id; no request ever removes a row.
C5_SoftDeleteHidesButKeeps ==
    [][/\ Len(users') >= Len(users)
       /\ \A i \in 1..Len(users) : get_user(users', i).status = 200
       /\ (resp'.op = "delete_user" /\ resp'.status = 200)
            => (/\ ~users'[resp'.id].is_active
                /\ get_user(users', resp'.id).data[1].is_active = FALSE)
       /\ \A i \in 1..Len(users') :
            ~users'[i].is_active
                => \A page \in 1..(MaxUsers + 1), size \in 1..MaxSize :
                       i \notin ListedIds(users', page, size)]_vars

\* A user was deleted while another user stays listed.
C5_Witness ==
    /\ resp.op = "delete_user"
    /\ resp.status = 200
    /\ ~users[resp.id].is_active
    /\ \E i \in 1..Len(users) : i \in ListedIds(users, 1, 1)

(***************************************************************************)
(* Heroes: deletion, repeated creation, abilities, power distribution.     *)
(***************************************************************************)

\* C6 as stated: once delete_hero has succeeded for an id, every later
\* get_hero and delete_hero with that id is answered 404, whatever request
\* came in between.
C6_Original ==
    [][(resp.op = "delete_hero" /\ resp.status = 200)
          => /\ get_hero(heroes', resp.id).status = 404
             /\ delete_hero(heroes', resp.id).status = 404]_vars

\* C6, amended: a successful delete_hero removes the row, so get_hero and a
\* second delete_hero with that id are answered 404; an id that has no row
\* is answered 404 by both, and it gets a row again only by a create_hero
\* that is assigned that id.
C6_DeletedUntilIdReassigned ==
    [][/\ (resp'.op = "delete_hero" /\ resp'.status = 200)
            => /\ resp'.id \in DOMAIN heroes
               /\ resp'.id \notin DOMAIN heroes'
               /\ get_hero(heroes', resp'.id).status = 404
               /\ delete_hero(heroes', resp'.id).status = 404
       /\ \A id \in HeroIds :
            id \notin DOMAIN heroes
                => /\ get_hero(heroes, id).status = 404
                   /\ delete_hero(heroes, id).status = 404
                   /\ id \in DOMAIN heroes'
                        => /\ resp'.op = "create_hero"
                           /\ id = next_hero_id(heroes)]_vars

C6_Witness ==
    /\ resp.op = "delete_hero"
    /\ resp.status = 200
    /\ heroes # <<>>
    /\ get_hero(heroes, resp.id).status = 404
    /\ next_hero_id(heroes) = resp.id

\* C7: the request that create_hero has just handled, sent again as it was,
\* is answered with a conflict (400 or 409) and adds no row.
C7_RepeatedCreateConflicts ==
    resp.op = "create_hero"
        => LET r == create_hero(heroes, resp.req)
           IN /\ r.status \in {400, 409}
              /\ r.rows = heroes

\* C8: a create_hero that carries an abilities list and is not refused as a
\* duplicate answers with that same list, and so does get_hero afterwards.
C8_AbilitiesRoundTrip ==
    (resp.op = "create_hero" /\ resp.req.abilities # None /\ resp.status # 409)
        => /\ resp.status = 201
           /\ resp.data # None
           /\ resp.data[1].abilities = resp.req.abilities
           /\ get_hero(heroes, resp.data[1].id).status = 200
           /\ get_hero(heroes, resp.data[1].id).data[1].abilities
                  = resp.req.abilities

RECURSIVE SumCounts(_)
SumCounts(dist) ==
    IF Len(dist) = 0 THEN 0 ELSE dist[1].count + SumCounts(Tail(dist))

\* C9: in every reachable state the four bucket counts that
\* get_power_distribution returns add up to the total_heroes it returns,
\* which is the number of active heroes.
C9_BucketsSumToTotal ==
    LET r == get_power_distribution(heroes)
    IN /\ Len(r.distribution) = 4
       /\ SumCounts(r.distribution) = r.statistics.total_heroes
       /\ r.statistics.total_heroes = Cardinality(active_hero_ids(heroes))
       /\ resp.op = "get_power_distribution"
            => /\ resp.distribution = r.distribution
               /\ resp.statistics = r.statistics

C9_Witness ==
    /\ resp.op = "get_power_distribution"
    /\ resp.statistics.total_heroes = 1
    /\ resp.distribution[2].count = 1
    /\ \E j \in DOMAIN heroes : heroes[j].is_active /\ heroes[j].power_level = 21
    /\ \E j \in DOMAIN heroes : ~heroes[j].is_active /\ heroes[j].power_level = 20

(***************************************************************************)
(* Files: refused uploads.                                                 *)
(***************************************************************************)

\* C10 as stated: upload_single_file answers 413 to every file longer than
\* 10 MB and 400 to every file whose extension is not allowed, and in both
\* cases leaves the upload directory as it was.
C10_Original ==
    [][resp'.op = "upload_single_file"
          => /\ resp'.file.size > MAX_FILE_SIZE
                  => resp'.status = 413 /\ files' = files
             /\ suffix_lower(resp'.file.filename) \notin all_extensions
                  => resp'.status = 400 /\ files' = files]_vars

\* C10, amended: upload_single_file answers 400 to every file whose
\* extension is not allowed, whatever its length, and 413 to every file with
\* an allowed extension that is longer than 10 MB; in both cases the upload
\* directory is left as it was.
C10_RefusedUploadLeavesDirectory ==
    [][resp'.op = "upload_single_file"
          => /\ suffix_lower(resp'.file.filename) \notin all_extensions
                  => resp'.status = 400 /\ files' = files
             /\ (/\ suffix_lower(resp'.file.filename) \in all_extensions
                 /\ resp'.file.size > MAX_FILE_SIZE)
                  => resp'.status = 413 /\ files' = files
             /\ resp'.status \in {400, 413} => files' = files]_vars

C10_Witness ==
    /\ resp.op = "upload_single_file"
    /\ resp.status = 413
    /\ resp.file.size = MAX_FILE_SIZE + 1
    /\ \E f \in files : f.size = MAX_FILE_SIZE

(***************************************************************************)
(* Files: batches.                                                         *)
(***************************************************************************)

\* C11: upload_multiple_files answers 400 to a request with more than 10
\* files and saves none of them, also when every file of it is valid; a
\* request with exactly 10 files is not answered 400.
C11_TooManyFilesRejected ==
    [][resp'.op = "upload_multiple_files"
          => /\ Len(resp'.files) > 10
                  => /\ resp'.status = 400
                     /\ resp'.data = None
                     /\ files' = files
             /\ Len(resp'.files) = 10 => resp'.status # 400]_vars

C11_Witness ==
    /\ resp.op = "upload_multiple_files"
    /\ Len(resp.files) = 11
    /\ \A k \in 1..Len(resp.files) :
           upload_single_file({}, resp.files[k], "u1").status = 200
    /\ resp.status = 400
    /\ files # {}

\* The file would be saved by an upload of its own.
IsSavable(file) == validate_file(file) = 0 /\ file.size <= MAX_FILE_SIZE

\* C12: upload_multiple_files with at most 10 files answers 200; the files
\* that can be saved are, in their order, the uploaded_files and the others,
\* in their order, the failed_files, so the two totals add up to the number
\* of files; every file that can be saved is in the directory afterwards
\* under an id of its own, whatever the other files of the batch are, and
\* the files that were there are kept.
C12_BatchProcessedIndependently ==
    [][(resp'.op = "upload_multiple_files" /\ Len(resp'.files) <= 10)
          => /\ resp'.status = 200
             /\ resp'.data # None
             /\ LET d == resp'.data[1]
                    good == SelectSeq(resp'.files, IsSavable)
                    bad == SelectSeq(resp'.files, LAMBDA f : ~IsSavable(f))
                IN /\ d.total_uploaded = Len(d.uploaded_files)
                   /\ d.total_failed = Len(d.failed_files)
                   /\ d.total_uploaded + d.total_failed = Len(resp'.files)
                   /\ Len(d.uploaded_files) = Len(good)
                   /\ \A k \in 1..Len(good) :
                        /\ d.uploaded_files[k].original_name = good[k].filename
                        /\ d.uploaded_files[k].file_size = good[k].size
                        /\ \E f \in files' \ files :
                             /\ f.file_id = d.uploaded_files[k].file_id
                             /\ f.size = good[k].size
                             /\ f.ext = suffix_lower(good[k].filename)
                   /\ Len(d.failed_files) = Len(bad)
                   /\ \A k \in 1..Len(bad) :
                        d.failed_files[k].filename = bad[k].filename
                   /\ files \subseteq files'
                   /\ Cardinality(files' \ files) = Len(good)]_vars

C12_Witness ==
    /\ resp.op = "upload_multiple_files"
    /\ resp.status = 200
    /\ Len(resp.files) = 10
    /\ ~IsSavable(resp.files[1])
    /\ resp.data[1].total_failed = 1
    /\ resp.data[1].total_uploaded = 9
    /\ Cardinality(files) = 9

(***************************************************************************)
(* Users: login and partial update.                                        *)
(***************************************************************************)

\* Row i of the table passes the two tests of login_user for the body.
LoginAccepts(rows, login_data, i) ==
    rows[i].password = login_data.password /\ rows[i].is_active

\* C13: login_user answers 200 or 401.  It answers 200 only for a row that
\* the username or the email selects, whose stored password is the supplied
\* one and which is active, and then sets that row's last_login and nothing
\* else; it answers 401 only when no row is selected or a selected row fails
\* one of the tests, and then leaves the table as it was.  When no selected
\* row passes the answer is 401, when every selected row passes it is 200.
\* No other request changes a last_login.
C13_LoginExactlyWhenValid ==
    [][/\ resp'.op = "login_user"
            => LET login_data == resp'.login_data
                   found == login_rows(users, login_data)
               IN /\ resp'.status \in {200, 401}
                  /\ resp'.status = 200
                       => \E i \in found :
                            /\ LoginAccepts(users, login_data, i)
                            /\ users'[i].last_login # users[i].last_login
                            /\ users' = [users EXCEPT ![i].last_login =
                                                         users'[i].last_login]
                            /\ resp'.data[1].id = i
                  /\ resp'.status = 401
                       => /\ users' = users
                          /\ \/ found = {}
                             \/ \E i \in found :
                                    ~LoginAccepts(users, login_data, i)
                  /\ (\A i \in found : ~LoginAccepts(users, login_data, i))
                       => resp'.status = 401
                  /\ (found # {} /\ \A i \in found :
                                        LoginAccepts(users, login_data, i))
                       => resp'.status = 200
       /\ resp'.op # "login_user"
            => \A i \in 1..Len(users) :
                   users'[i].last_login = users[i].last_login]_vars

C13_Witness ==
    /\ resp.op = "login_user"
    /\ resp.status = 200
    /\ users[resp.data[1].id].last_login = Some(2)
    /\ \E i \in 1..Len(users) :
           /\ i # resp.data[1].id
           /\ users[i].last_login = Some(1)
           /\ ~users[i].is_active

\* The fields of a users row that the body of an update carries.
FieldsPresent(row, upd) ==
    {f \in DOMAIN row : f \in DOMAIN upd /\ upd[f] # Unset}

\* C14: in every reachable state and for every id and body, update_user
\* leaves every other row as it is and, in the row of the id, every field
\* that the body does not carry; when it answers 200 the fields the body
\* carries have the values of the body; when the body carries a password
\* that fails is_password_strong the answer is 422 and the table is as it
\* was, the other fields of the body included.  Whenever the answer is not
\* 200 the table is as it was.
C14_UpdateChangesOnlySuppliedFields ==
    \A id \in UserIds, upd \in UserUpdateRequests :
        LET r == update_user(users, id, upd)
        IN /\ Len(r.rows) = Len(users)
           /\ \A j \in 1..Len(users) : j # id => r.rows[j] = users[j]
           /\ r.status # 200 => r.rows = users
           /\ id \in 1..Len(users)
                => /\ \A f \in DOMAIN users[id] \ FieldsPresent(users[id], upd) :
                          r.rows[id][f] = users[id][f]
                   /\ r.status = 200
                        => \A f \in FieldsPresent(users[id], upd) :
                               r.rows[id][f] = upd[f][1]
                   /\ (/\ upd.password # Unset
                       /\ ~is_password_strong(upd.password[1]).is_valid)
                        => r.status = 422 /\ r.rows = users

C14_Witness ==
    /\ resp.op = "update_user"
    /\ resp.status = 200
    /\ Len(users) = 2
    /\ ~users[resp.id].is_active
    /\ \E upd \in UserUpdateRequests :
           /\ upd.is_active = Unset
           /\ upd.username # Unset
           /\ update_user(users, resp.id, upd).status = 200
    /\ \E upd \in UserUpdateRequests :
           /\ upd.is_active = Some(TRUE)
           /\ upd.password = Some("Password")
           /\ update_user(users, resp.id, upd).status = 422

(***************************************************************************)
(* Heroes: the name check of update_hero.                                  *)
(***************************************************************************)

\* C15: in every reachable state, for every hero and every body: an update
\* that gives the hero the name it has is not refused (it is answered 200,
\* or 500 when the row holds or the body carries abilities, and the name
\* stays); an update that gives it the name of another hero is answered 400
\* and leaves every row as it was; an update is answered 400 only when it
\* carries a name that another hero has, so never when it carries no name.
C15_UpdateNameCheck ==
    \A id \in DOMAIN heroes, upd \in HeroUpdateRequests :
        LET r == update_hero(heroes, id, upd)
            taken == /\ upd.name # Unset
                     /\ \E j \in DOMAIN heroes \ {id} :
                            heroes[j].name = upd.name[1]
        IN /\ (upd.name # Unset /\ upd.name[1] = heroes[id].name)
                => /\ r.status \in {200, 500}
                   /\ r.status = 500
                        => \/ HeroResponse_raises(heroes[id])
                           \/ upd.abilities # Unset
                   /\ r.rows[id].name = heroes[id].name
           /\ taken => r.status = 400 /\ r.rows = heroes
           /\ r.status = 400 => taken
           /\ upd.name = Unset => r.status # 400

C15_Witness ==
    /\ resp.op = "update_hero"
    /\ resp.status = 400
    /\ Cardinality(DOMAIN heroes) = 2
    /\ \E upd \in HeroUpdateRequests :
           /\ upd.name = Some(heroes[resp.id].name)
           /\ update_hero(heroes, resp.id, upd).status = 200

(***************************************************************************)
(* Heroes: the list and its total.                                         *)
(***************************************************************************)

\* A hero (a row or a returned hero) satisfies every filter of the query; a
\* search for the empty text is satisfied by every hero.
SatisfiesFilters(hero, q) ==
    /\ q.active_only => hero.is_active
    /\ q.team # None => hero.team = q.team
    /\ q.min_power_level # None => hero.power_level >= q.min_power_level[1]
    /\ q.max_power_level # None => hero.power_level <= q.max_power_level[1]
    /\ q.search # None
         => \/ q.search[1] = ""
            \/ ilike_contains(Some(hero.name), q.search[1])
            \/ ilike_contains(hero.description, q.search[1])

\* C16: in every reachable state and for every query, a get_heroes that
\* answers 200 returns as total the number of rows that satisfy all the
\* filters of the query, returns only heroes that satisfy them, each a row
\* of the table and none twice, and returns at most limit of them; it
\* answers 200 unless a row it selected holds an abilities text.
C16_TotalMirrorsFilters ==
    \A q \in HeroQueries :
        LET r == get_heroes(heroes, q)
            matching == {j \in DOMAIN heroes : SatisfiesFilters(heroes[j], q)}
        IN /\ r.status \in {200, 500}
           /\ r.status = 500
                => \E j \in matching : HeroResponse_raises(heroes[j])
           /\ r.status = 200
                => LET d == r.data[1]
                   IN /\ d.total = Cardinality(matching)
                      /\ Len(d.heroes) <= q.limit
                      /\ \A k \in 1..Len(d.heroes) :
                            /\ SatisfiesFilters(d.heroes[k], q)
                            /\ d.heroes[k].id \in matching
                            /\ \A m \in 1..Len(d.heroes) :
                                   d.heroes[m].id = d.heroes[k].id => m = k
                      /\ Len(d.heroes) <= d.total

C16_Witness ==
    /\ resp.op = "get_heroes"
    /\ resp.status = 200
    /\ Cardinality(DOMAIN heroes) = 2
    /\ resp.data[1].total = 1
    /\ Len(resp.data[1].heroes) = 1
    /\ resp.data[1].heroes[1].description # None
    /\ \E j \in DOMAIN heroes : ~heroes[j].is_active

(***************************************************************************)
(* Files: lookups by file_id.                                              *)
(***************************************************************************)

\* C17: when the lookup of download_file, delete_file or get_file_info
\* matches no file of the directory, the answer is 200 with the success
\* envelope and no data (not 404, and no file content), and the directory is
\* left as it was.
C17_NotFoundIs200WithoutData ==
    [][(/\ resp'.op \in {"download_file", "delete_file", "get_file_info"}
        /\ matching_files(files, resp'.file_id) = {})
          => /\ resp'.status = 200
             /\ resp'.data = None
             /\ resp'.content = None
             /\ files' = files]_vars

C17_Witness ==
    /\ resp.op = "delete_file"
    /\ resp.file_id \in Uuids
    /\ resp.status = 200
    /\ resp.data = None
    /\ files # {}
    /\ \A first \in first_matching(files, resp.file_id) :
           /\ download_file(files, resp.file_id, first).content = None
           /\ get_file_info(files, resp.file_id, first).data = None

\* C18: a file that an upload has saved under file_id is downloaded with
\* the content it was uploaded with and is listed by list_files, and it
\* stays in the directory until a delete_file(file_id) succeeds; after that
\* delete, download_file, get_file_info and delete_file find no file for
\* file_id.
C18_FileRoundTrip ==
    [][/\ \A f \in files' :
            /\ \A first \in first_matching(files', f.file_id) :
                   download_file(files', f.file_id, first).content = Some(f.size)
            /\ \E e \in list_files(files').data[1].files :
                   e.file_id = f.file_id
       /\ \A f \in files \ files' :
            /\ resp'.op = "delete_file"
            /\ resp'.file_id = f.file_id
            /\ resp'.data # None
            /\ first_matching(files', f.file_id) = {None}]_vars

(***************************************************************************)
(* The error policy of the mutating handlers.                              *)
(***************************************************************************)

\* C19: when create_hero, update_hero or delete_hero answers with an error
\* status (the HTTPException of a business rule, or the generic 500 after
\* the rollback), nothing of what the handler attempted is persisted: the
\* heroes table is as it was before the request.
C19_ErrorsPersistNothing ==
    [][(/\ resp'.op \in {"create_hero", "update_hero", "delete_hero"}
        /\ resp'.status >= 400)
          => heroes' = heroes]_vars

\* C20: when the insert of create_user or the update of update_user reaches
\* the database and is refused by a UNIQUE index of the users table, the
\* client receives 409.
C20_IntegrityViolationIs409 ==
    /\ \A req \in UserCreateRequests :
           (/\ is_password_strong(req.password).is_valid
            /\ user_unique_violation(users, 0, User(req)))
              => create_user(users, req).status = 409
    /\ \A user_id \in 1..Len(users), upd \in UserUpdateRequests :
           (/\ upd.password # Unset => is_password_strong(upd.password[1]).is_valid
            /\ user_unique_violation(users, user_id,
                                     apply_user_update(users[user_id], upd)))
              => update_user(users, user_id, upd).status = 409

(***************************************************************************)
(* Requests for an id that has no row.                                     *)
(***************************************************************************)

\* C21: get_user, update_user, delete_user, get_hero, update_hero,
\* delete_hero, activate_hero and deactivate_hero, called with an id that
\* has no row, answer 404 and leave every row as it was; the body of the
\* 404 is the error envelope with success = false and error_code NOT_FOUND.
C21_MissingIdIs404 ==
    /\ \A id \in UserIds \ (1..Len(users)) :
          /\ get_user(users, id).status = 404
          /\ \A upd \in UserUpdateRequests :
                /\ update_user(users, id, upd).status = 404
                /\ update_user(users, id, upd).rows = users
          /\ delete_user(users, id).status = 404
          /\ delete_user(users, id).rows = users
    /\ \A id \in HeroIds \ DOMAIN heroes :
          /\ get_hero(heroes, id).status = 404
          /\ \A upd \in HeroUpdateRequests :
                /\ update_hero(heroes, id, upd).status = 404
                /\ update_hero(heroes, id, upd).rows = heroes
          /\ delete_hero(heroes, id).status = 404
          /\ delete_hero(heroes, id).rows = heroes
          /\ activate_hero(heroes, id).status = 404
          /\ activate_hero(heroes, id).rows = heroes
          /\ deactivate_hero(heroes, id).status = 404
          /\ deactivate_hero(heroes, id).rows = heroes
    /\ exception_response(404).status = 404
    /\ exception_response(404).body.success = FALSE
    /\ exception_response(404).body.error_code = Some("NOT_FOUND")

C21_Witness ==
    /\ resp.op = "deactivate_hero"
    /\ resp.status = 404
    /\ resp.id \notin DOMAIN heroes
    /\ heroes # <<>>
    /\ Len(users) = 1
    /\ get_user(users, 2).status = 404
    /\ exception_response(resp.status).body.error_code = Some("NOT_FOUND")

(***************************************************************************)
(* Password strength.                                                      *)
(***************************************************************************)

\* C22: is_password_strong reports every rule the password violates: the
\* issues hold the too-short issue exactly when the length is below 6, the
\* too-long issue exactly when it is above 100 and the too-common issue
\* exactly when the lower-cased password is in the blacklist; is_valid is
\* true exactly when there is no issue.
C22_AllViolatedRulesReported ==
    resp.op = "is_password_strong" =>
        LET issues == {resp.issues[k] : k \in 1..Len(resp.issues)} IN
        /\ "Password must be at least 6 characters long" \in issues
              <=> Len(resp.password) < 6
        /\ "Password must be no more than 100 characters long" \in issues
              <=> Len(resp.password) > 100
        /\ "Password is too common" \in issues
              <=> lower(resp.password) \in weak_passwords
        /\ resp.is_valid <=> resp.issues = <<>>

C22_Witness ==
    /\ resp.op = "is_password_strong"
    /\ resp.password = "ADMIN"
    /\ Len(resp.issues) = 2
    /\ ~resp.is_valid

(***************************************************************************)
(* What the user responses show.                                           *)
(***************************************************************************)

\* The users table with the stored passwords replaced by pwds.
with_passwords(rows, pwds) ==
    [i \in 1..Len(rows) |-> [rows[i] EXCEPT !.password = pwds[i]]]

\* C23: the responses to get_user, get_users, create_user, update_user and
\* to a successful login_user are the same in any two states of the users
\* table that differ only in the stored passwords: no response carries a
\* password.
C23_ResponsesIndependentOfPasswords ==
    \A pwds \in [1..Len(users) -> Passwords] :
        LET other == with_passwords(users, pwds) IN
        /\ \A id \in UserIds : get_user(users, id) = get_user(other, id)
        /\ \A page \in 1..MaxPage, size \in 1..MaxSize :
               get_users(users, page, size) = get_users(other, page, size)
        /\ \A req \in UserCreateRequests :
               LET a == create_user(users, req)
                   b == create_user(other, req)
               IN a.status = b.status /\ a.data = b.data
        /\ \A id \in UserIds, upd \in UserUpdateRequests :
               LET a == update_user(users, id, upd)
                   b == update_user(other, id, upd)
               IN a.status = b.status /\ a.data = b.data
        /\ \A login_data \in UserLoginRequests :
               \A user \in login_first(users, login_data) :
                   LET a == login_user(users, login_data, user)
                       b == login_user(other, login_data, user)
                   IN (a.status = 200 /\ b.status = 200) => a.data = b.data

C23_Witness ==
    /\ resp.op = "get_user"
    /\ resp.status = 200
    /\ Len(users) = 2
    /\ users[1].password # users[2].password
    /\ \E login_data \in UserLoginRequests :
           login_user(users, login_data, 1).status = 200

(***************************************************************************)
(* The session of a request.                                               *)
(***************************************************************************)

\* C24 as stated: one session per request, committed when the handler has
\* completed normally, rolled back when the handler has raised, and closed
\* when the request has ended.
C24_Original ==
    \A p \in Procs :
        /\ reqs[p].opened <= 1
        /\ reqs[p].pc = "ended" =>
              /\ reqs[p].session = "closed"
              /\ ~reqs[p].raised => reqs[p].commits # {}
              /\ reqs[p].raised => reqs[p].rolled_back

\* C24: the provider opens one session per request, rolls it back when the
\* handler has raised and closes it on every path, so that no session is
\* open after its request has ended; it never commits: the session of a
\* request that has ended was committed exactly when its handler called
\* commit itself.
C24_SessionClosedNeverCommittedByProvider ==
    \A p \in Procs :
        /\ reqs[p].opened <= 1
        /\ reqs[p].session = "open" => reqs[p].pc \notin {"idle", "ended"}
        /\ "provider" \notin reqs[p].commits
        /\ reqs[p].rolled_back => reqs[p].raised
        /\ reqs[p].pc = "ended" =>
              /\ reqs[p].session = "closed"
              /\ reqs[p].opened = 1
              /\ reqs[p].raised <=> reqs[p].rolled_back

C24_Witness ==
    \E p, q \in Procs :
        /\ reqs[p].pc = "ended"
        /\ ~reqs[p].raised
        /\ reqs[p].commits = {}
        /\ reqs[p].session = "closed"
        /\ reqs[q].pc = "ended"
        /\ reqs[q].raised
        /\ reqs[q].rolled_back

(***************************************************************************)
(* Creating rows.                                                          *)
(***************************************************************************)

\* C25: create_user with a valid password, whose username and email are
\* held by no active row but are held by an inactive (soft-deleted) row, is
\* no conflict: it answers 201 and adds a new row, which is active.
C25_SoftDeletedNameReusable ==
    \A req \in UserCreateRequests :
        (/\ req.is_active
         /\ is_password_strong(req.password).is_valid
         /\ ~existing_user(users, req)
         /\ ~existing_email(users, req)
         /\ \E i \in 1..Len(users) :
                /\ ~users[i].is_active
                /\ users[i].username = req.username
                /\ users[i].email = req.email)
           => /\ create_user(users, req).status = 201
              /\ create_user(users, req).rows = Append(users, User(req))

C27_OwnCredentialsLogIn ==
    \A i \in 1..Len(users) :
        users[i].is_active =>
            LET login_data == [username |-> users[i].username,
                               password |-> users[i].password]
            IN \A user \in login_first(users, login_data) :
                   login_user(users, login_data, user).status = 200

(***************************************************************************)
(* The pages of paginate_query.                                            *)
(***************************************************************************)

\* C28: on a table that does not change and whose rows come in a fixed
\* order, paginate_query returns for page p and size s exactly
\* min(s, max(0, total - (p-1)*s)) items, the rows at the positions
\* (p-1)*s .. (p-1)*s + s - 1 of the query's result; the pages 1..pages
\* together hold every row exactly once, and a page after the last one is
\* empty with has_next = false.
C28_PagesPartitionRows ==
    pg.out # None =>
        LET r == pg.out[1]
            rows == query_rows(pg.total)
            first == (pg.page - 1) * pg.size
            rest == IF pg.total - first > 0 THEN pg.total - first ELSE 0
            page_items(q) == paginate_query(rows, q, pg.size).items
        IN /\ r.total = pg.total
           /\ Len(r.items) = Min2(pg.size, rest)
           /\ \A k \in 1..Len(r.items) : r.items[k] = rows[first + k]
           /\ \A j \in 1..pg.total :
                  Cardinality({qk \in (1..r.pages) \X (1..pg.size) :
                                  /\ qk[2] <= Len(page_items(qk[1]))
                                  /\ page_items(qk[1])[qk[2]] = rows[j]}) = 1
           /\ pg.page > r.pages => r.items = <<>> /\ ~r.has_next

C28_Witness ==
    /\ pg.out # None
    /\ pg.total = 7
    /\ pg.size = 3
    /\ pg.page = 3
    /\ pg.out[1].items = <<14>>
    /\ pg.out[1].pages = 3

(***************************************************************************)
(* What delete_file removes.                                               *)
(***************************************************************************)

\* C29: delete_file(file_id) removes at most one file, and only a file
\* stored under the identifier file_id; every other file of the upload
\* directory stays as it is, whatever string file_id is (a glob pattern
\* such as * included).
C29_DeleteRemovesOnlyItsFile ==
    [][resp'.op = "delete_file"
          => /\ files' \subseteq files
             /\ Cardinality(files \ files') <= 1
             /\ \A f \in files \ files' : f.file_id = resp'.file_id]_vars

\* C30: of two delete_file requests for the same file id that arrive while
\* the file is stored, whatever the order of their lookups and unlinks,
\* exactly one reports deleted = true and the other gets the 200 without
\* data; neither ends in a 500.
C30_ConcurrentDeletesOneWins ==
    \A p, q \in Procs :
        (/\ p # q
         /\ reqs[p].pc = "done"
         /\ reqs[q].pc = "done"
         /\ reqs[p].file_id = reqs[q].file_id
         /\ reqs[p].existed
         /\ reqs[q].existed)
           => /\ reqs[p].status = 200
              /\ reqs[q].status = 200
              /\ (reqs[p].data = None) # (reqs[q].data = None)

====
